---- MODULE Spec2Model ----
(***************************************************************************)
(* State-machine model of src/main.py: the reference loader, the recursive *)
(* walk over the disk image's file entries, the per-candidate comparison   *)
(* loop with its optional export, and the final report.                    *)
(*                                                                         *)
(* Conventions.                                                            *)
(*  - A file entry is a node of a tree; its path_spec.location and its     *)
(*    name are the node itself.                                            *)
(*  - An image is a record [mode, data]: data is the flat sequence of its  *)
(*    8-bit samples.  np.mean is a float; it is kept exact as the record   *)
(*    [num, den] (sum of the samples, number of samples).                  *)
(*  - The recursion of traverse_file_entries is the explicit call stack    *)
(*    `stack`; an uncaught Python exception ends the process in the        *)
(*    pc = "aborted" state with exit code 1.                               *)
(*  - resultHi and resultNoOut are the result dicts of the same scan run   *)
(*    in lockstep on the same inputs with threshold + 1 and with no output *)
(*    folder (self-composition, used by the relational claims only).       *)
(***************************************************************************)
EXTENDS Integers, Sequences, FiniteSets, TLC

\* ------------------------------------------------------------------ bounds
MaxThreshold == 2
MaxRefFiles == 2

\* ------------------------------------------------------------------ inputs
\* The decoded images: colour images of two samples, whose pairwise mean
\* differences are 0, 1/2, 1, 3/2 and 2, and one greyscale image, whose bands
\* match none of the others.
SampleData == {<<0, 0>>, <<0, 1>>, <<1, 1>>, <<2, 2>>}
Images == [mode : {"RGB"}, data : SampleData] \cup [mode : {"L"}, data : {<<0, 0>>}]
\* bytes Image.open rejects, and bytes whose header parses but whose pixel
\* data cannot be loaded (Image.open is lazy)
Undecodable == [mode |-> "undecodable", data |-> <<>>]
Truncated == [mode |-> "truncated", data |-> <<>>]

Extensions == {".jpg", ".PNG", ".txt"}
valid_image_extensions == {".jpg", ".jpeg", ".png", ".bmp", ".gif", ".tiff"}

\* str.lower() on the extensions of the model
Lower(ext) == IF ext = ".PNG" THEN ".png" ELSE ext

\* The disk-image trees: children in the order the provider reports them,
\* dirs the entries for which IsDirectory() is true.  Entry 0 is the root.
\* TreeNested: /3/2, /1, /4 (an empty directory): its depth-first leaf order
\* 2, 1 differs from the breadth-first one and from the sorted one.
Nodes == {0, 1, 2, 3, 4}
NoChildren == [n \in Nodes |-> <<>>]
TreeNested == [children |-> [NoChildren EXCEPT ![0] = <<3, 1, 4>>, ![3] = <<2>>],
               dirs |-> {0, 3, 4}]
TreeRootFile == [children |-> NoChildren, dirs |-> {}]
Trees == {TreeNested, TreeRootFile}

VARIABLES
    pc,                    \* position of the main program
    exit_code,             \* process exit status, -1 while running
    tree,                  \* the file system of the disk image
    similarity_threshold,  \* -i
    output_folder,         \* -o, "" when absent
    listed,                \* number of names os.listdir has yielded so far
    load_status,           \* how the loading of the references ended
    reference_image_list,  \* dict name -> image, in insertion order
    result,                \* dict name -> list of (location, mean_diff)
    resultHi,              \* result of the same scan with threshold + 1
    resultNoOut,           \* result of the same scan with output_folder ""
    stack,                 \* call stack of traverse_file_entries
    visited,               \* entries handed to is_image_similar, in order
    opened,                \* entries whose file object was requested
    decoded,               \* entry -> outcome of Image.open on its bytes
    saved,                 \* entries written to the output folder
    list_failed,           \* directories whose listing raised
    stdout                 \* lines of the final report

vars == <<pc, exit_code, tree, similarity_threshold, output_folder, listed,
          load_status, reference_image_list, result, resultHi, resultNoOut,
          stack, visited, opened, decoded, saved, list_failed, stdout>>

\* ------------------------------------------------------- img_similarity_check
Abs(x) == IF x < 0 THEN -x ELSE x
Range(s) == {s[k] : k \in DOMAIN s}

RECURSIVE SumSeq(_)
SumSeq(s) == IF s = <<>> THEN 0 ELSE Head(s) + SumSeq(Tail(s))

\* ImageChops.difference: per-sample absolute difference
ImageChops_difference(a, b) == [k \in 1..Len(a.data) |-> Abs(a.data[k] - b.data[k])]

\* np.mean, exact
np_mean(arr) == [num |-> SumSeq(arr), den |-> Len(arr)]

\* mean < threshold on the exact mean
MeanLess(m, t) == m.num < t * m.den

NoScore == [num |-> 0, den |-> 0]

\* the difference raises when the candidate's lazy load fails or the two
\* images do not have the same bands
DifferenceRaises(img1, img2) ==
    \/ img1 = Truncated
    \/ img1.mode # img2.mode

img_similarity_check_le(img1, img2, threshold) ==
    IF DifferenceRaises(img1, img2)
    THEN [raised |-> TRUE, is_similar |-> FALSE, mean_diff |-> NoScore]
    ELSE LET mean_diff == np_mean(ImageChops_difference(img2, img1))
         IN [raised |-> FALSE,
             is_similar |-> mean_diff.num <= threshold * mean_diff.den,
             mean_diff |-> mean_diff]

img_similarity_check(img1, img2, threshold) ==
    IF DifferenceRaises(img1, img2)
    THEN [raised |-> TRUE, is_similar |-> FALSE, mean_diff |-> NoScore]
    ELSE LET mean_diff == np_mean(ImageChops_difference(img2, img1))
         IN [raised |-> FALSE,
             is_similar |-> MeanLess(mean_diff, threshold),
             mean_diff |-> mean_diff]

\* ----------------------------------------------------------- is_image_similar
\* The inputs of one call: the extension of the entry's name, what
\* GetFileObject/read do, what Image.open yields, whether image.save works.
CandidateInputs ==
    {[ext |-> e, fobj |-> "ok", image |-> Undecodable, write_ok |-> TRUE] :
        e \in {x \in Extensions : Lower(x) \notin valid_image_extensions}}
    \cup
    {[ext |-> e, fobj |-> f, image |-> Undecodable, write_ok |-> TRUE] :
        e \in {x \in Extensions : Lower(x) \in valid_image_extensions},
        f \in {"none", "raise"}}
    \cup
    {[ext |-> e, fobj |-> "ok", image |-> i, write_ok |-> w] :
        e \in {x \in Extensions : Lower(x) \in valid_image_extensions},
        i \in Images \cup {Undecodable, Truncated},
        w \in BOOLEAN}

PassesFilter(inp) == Lower(inp.ext) \in valid_image_extensions
ReachesOpen(inp) == PassesFilter(inp) /\ inp.fobj = "ok"
ReachesLoop(inp) == ReachesOpen(inp) /\ inp.image # Undecodable

\* result[reference_name].append(res_tuple)
AppendRecord(res, reference_name, res_tuple) ==
    [res EXCEPT ![reference_name] = Append(@, res_tuple)]

\* whether image.save raises for this entry
SaveRaises(inp, out) == out # "" /\ ~inp.write_ok

\* The for loop over reference_image_list.items(), from index i on.  An
\* exception (in the comparison or in image.save) leaves the loop for the
\* except clause, which returns.
RECURSIVE CompareLoop(_, _, _, _, _, _, _)
CompareLoop(loc, inp, refs, i, threshold, res, out) ==
    IF i > Len(refs) THEN res
    ELSE LET ref == refs[i]
             chk == img_similarity_check(inp.image, ref.image, threshold)
         IN IF chk.raised THEN res
            ELSE IF chk.is_similar
                 THEN LET res2 == AppendRecord(res, ref.name, <<loc, chk.mean_diff>>)
                      IN IF SaveRaises(inp, out) THEN res2
                         ELSE CompareLoop(loc, inp, refs, i + 1, threshold, res2, out)
                 ELSE CompareLoop(loc, inp, refs, i + 1, threshold, res, out)

\* whether some iteration of the loop reaches a successful image.save
RECURSIVE SavesInLoop(_, _, _, _, _)
SavesInLoop(inp, refs, i, threshold, out) ==
    IF i > Len(refs) THEN FALSE
    ELSE LET chk == img_similarity_check(inp.image, refs[i].image, threshold)
         IN IF chk.raised THEN FALSE
            ELSE IF chk.is_similar
                 THEN IF out = "" THEN SavesInLoop(inp, refs, i + 1, threshold, out)
                      ELSE inp.write_ok
                 ELSE SavesInLoop(inp, refs, i + 1, threshold, out)

is_image_similar_propagates_decode(inp) ==
    PassesFilter(inp) /\ inp.fobj = "ok" /\ inp.image = Undecodable

\* whether an exception escapes is_image_similar: the try covers the whole
\* body and the except clause catches every Exception
is_image_similar_propagates(inp) == FALSE

\* the result dict after is_image_similar(file_entry, ...)
is_image_similar(loc, inp, refs, threshold, res, out) ==
    IF ~ReachesLoop(inp) THEN res
    ELSE CompareLoop(loc, inp, refs, 1, threshold, res, out)

\* ---------------------------------------------------------------------- Init
EmptyDict == <<>>

Init ==
    /\ pc = "open"
    /\ exit_code = -1
    /\ tree \in Trees
    /\ similarity_threshold \in 0..MaxThreshold
    /\ output_folder \in {"", "out"}
    /\ listed = 0
    /\ load_status = "pending"
    /\ reference_image_list = <<>>
    /\ result = EmptyDict
    /\ resultHi = EmptyDict
    /\ resultNoOut = EmptyDict
    /\ stack = <<>>
    /\ visited = <<>>
    /\ opened = {}
    /\ decoded = EmptyDict
    /\ saved = {}
    /\ list_failed = {}
    /\ stdout = <<>>

\* ----------------------------------------------------------- find_similar_images
\* path_spec_resolver.Resolver.OpenFileSystem: outside every try
OpenFileSystem ==
    /\ pc = "open"
    /\ \E ok \in BOOLEAN :
          IF ok THEN pc' = "load" /\ exit_code' = exit_code
          ELSE pc' = "aborted" /\ exit_code' = 1
    /\ UNCHANGED <<tree, similarity_threshold, output_folder, listed, load_status,
                   reference_image_list, result, resultHi, resultNoOut, stack,
                   visited, opened, decoded, saved, list_failed, stdout>>

\* os.listdir raises: the except clause returns False, main goes on
ListDirError ==
    /\ pc = "load"
    /\ listed = 0
    /\ load_status' = "listdir_error"
    /\ pc' = "report"
    /\ UNCHANGED <<exit_code, tree, similarity_threshold, output_folder, listed,
                   reference_image_list, result, resultHi, resultNoOut, stack,
                   visited, opened, decoded, saved, list_failed, stdout>>

\* result[file_path] = []
AddKey_skip(res, file_path) == res

AddKey(res, file_path) == res @@ (file_path :> <<>>)

\* one iteration of the loop over os.listdir(reference_image_folder_path)
LoadReference ==
    /\ pc = "load"
    /\ listed < MaxRefFiles
    /\ \E ext \in Extensions, image \in Images \cup {Undecodable} :
          LET filename == listed + 1 IN
          /\ listed' = listed + 1
          /\ IF Lower(ext) \notin valid_image_extensions
             THEN /\ image = Undecodable
                  /\ UNCHANGED <<pc, load_status, reference_image_list, result,
                                 resultHi, resultNoOut>>
             ELSE IF image = Undecodable
             THEN /\ load_status' = "open_error"
                  /\ pc' = "report"
                  /\ UNCHANGED <<reference_image_list, result, resultHi, resultNoOut>>
             ELSE /\ reference_image_list' =
                        Append(reference_image_list, [name |-> filename, image |-> image])
                  /\ result' = AddKey(result, filename)
                  /\ resultHi' = AddKey(resultHi, filename)
                  /\ resultNoOut' = AddKey(resultNoOut, filename)
                  /\ UNCHANGED <<pc, load_status>>
    /\ UNCHANGED <<exit_code, tree, similarity_threshold, output_folder, stack,
                   visited, opened, decoded, saved, list_failed, stdout>>

\* the listing is exhausted: GetRootFileEntry and the first call of
\* traverse_file_entries
StartTraversal ==
    /\ pc = "load"
    /\ load_status' = "ok"
    /\ pc' = "traverse"
    /\ stack' = <<[entry |-> 0, i |-> 1]>>
    /\ UNCHANGED <<exit_code, tree, similarity_threshold, output_folder, listed,
                   reference_image_list, result, resultHi, resultNoOut,
                   visited, opened, decoded, saved, list_failed, stdout>>

\* --------------------------------------------------------- traverse_file_entries
Top == stack[Len(stack)]

\* the call returns to its caller; the outermost return ends find_similar_images
Return(stk) == SubSeq(stk, 1, Len(stk) - 1)
PcAfter(stk) == IF stk = <<>> THEN "report" ELSE "traverse"

\* not file_entry.IsDirectory(): is_image_similar(file_entry, ...)
TraverseFile ==
    /\ pc = "traverse"
    /\ stack # <<>>
    /\ Top.entry \notin tree.dirs
    /\ \E inp \in CandidateInputs :
          LET loc == Top.entry IN
          /\ visited' = Append(visited, loc)
          /\ opened' = IF PassesFilter(inp) THEN opened \cup {loc} ELSE opened
          /\ decoded' = IF ReachesOpen(inp) THEN decoded @@ (loc :> inp.image)
                        ELSE decoded
          /\ result' = is_image_similar(loc, inp, reference_image_list,
                                        similarity_threshold, result, output_folder)
          /\ resultHi' = is_image_similar(loc, inp, reference_image_list,
                                          similarity_threshold + 1, resultHi,
                                          output_folder)
          /\ resultNoOut' = is_image_similar(loc, inp, reference_image_list,
                                             similarity_threshold, resultNoOut, "")
          /\ saved' = IF ReachesLoop(inp)
                         /\ SavesInLoop(inp, reference_image_list, 1,
                                        similarity_threshold, output_folder)
                      THEN saved \cup {loc} ELSE saved
          /\ IF is_image_similar_propagates(inp)
             THEN pc' = "aborted" /\ exit_code' = 1 /\ stack' = <<>>
             ELSE /\ stack' = Return(stack)
                  /\ pc' = PcAfter(stack')
                  /\ exit_code' = exit_code
    /\ UNCHANGED <<tree, similarity_threshold, output_folder, listed, load_status,
                   reference_image_list, list_failed, stdout>>

\* the index of the entry the for loop takes after the one at index i
NextIndex_skip(i) == i + 2

NextIndex(i) == i + 1

\* the for loop over file_entry.sub_file_entries takes the next entry and
\* calls traverse_file_entries on it
TraverseDescend ==
    /\ pc = "traverse"
    /\ stack # <<>>
    /\ Top.entry \in tree.dirs
    /\ Top.i <= Len(tree.children[Top.entry])
    /\ stack' = Append([stack EXCEPT ![Len(stack)].i = NextIndex(Top.i)],
                       [entry |-> tree.children[Top.entry][Top.i], i |-> 1])
    /\ UNCHANGED <<pc, exit_code, tree, similarity_threshold, output_folder, listed,
                   load_status, reference_image_list, result, resultHi,
                   resultNoOut, visited, opened, decoded, saved, list_failed,
                   stdout>>

\* the for loop is exhausted
TraverseReturn ==
    /\ pc = "traverse"
    /\ stack # <<>>
    /\ Top.entry \in tree.dirs
    /\ Top.i > Len(tree.children[Top.entry])
    /\ stack' = Return(stack)
    /\ pc' = PcAfter(stack')
    /\ UNCHANGED <<exit_code, tree, similarity_threshold, output_folder, listed,
                   load_status, reference_image_list, result, resultHi,
                   resultNoOut, visited, opened, decoded, saved, list_failed,
                   stdout>>

\* the provider raises while the for loop reads sub_file_entries: nothing
\* between here and the top of the program catches it
TraverseListError ==
    /\ pc = "traverse"
    /\ stack # <<>>
    /\ Top.entry \in tree.dirs
    /\ Top.i <= Len(tree.children[Top.entry]) + 1
    /\ list_failed' = list_failed \cup {Top.entry}
    /\ stack' = <<>>
    /\ pc' = "aborted"
    /\ exit_code' = 1
    /\ UNCHANGED <<tree, similarity_threshold, output_folder, listed,
                   load_status, reference_image_list, result, resultHi,
                   resultNoOut, visited, opened, decoded, saved, stdout>>

\* ------------------------------------------------------------------- __main__
NoMatchNotice == "No similar images identified. Try to adjust threshold or add more reference images."
ReportHeader == "Final Report: "

RECURSIVE StatLines(_)
StatLines(similar_images) ==
    IF similar_images = <<>> THEN <<>>
    ELSE <<[kind |-> "stat", path |-> Head(similar_images)[1],
            difference |-> Head(similar_images)[2]]>>
         \o StatLines(Tail(similar_images))

\* the loop over result.items(), in insertion order
RECURSIVE ReportLines(_, _)
ReportLines(refs, res) ==
    IF refs = <<>> THEN <<>>
    ELSE LET reference_image_name == Head(refs).name
             similar_images == res[reference_image_name]
         IN (IF Len(similar_images) # 0
             THEN <<[kind |-> "reference", name |-> reference_image_name]>>
                  \o StatLines(similar_images)
             ELSE <<>>)
            \o ReportLines(Tail(refs), res)

FirstLine(res) ==
    IF Cardinality(DOMAIN res) # 0 THEN ReportHeader ELSE NoMatchNotice

\* lines 204-214, then the interpreter exits with status 0
Report ==
    /\ pc = "report"
    /\ stdout' = <<[kind |-> "text", text |-> FirstLine(result)]>>
                  \o ReportLines(reference_image_list, result)
    /\ pc' = "done"
    /\ exit_code' = 0
    /\ UNCHANGED <<tree, similarity_threshold, output_folder, listed, load_status,
                   reference_image_list, result, resultHi, resultNoOut, stack,
                   visited, opened, decoded, saved, list_failed>>

Next ==
    \/ OpenFileSystem
    \/ ListDirError
    \/ LoadReference
    \/ StartTraversal
    \/ TraverseFile
    \/ TraverseDescend
    \/ TraverseReturn
    \/ TraverseListError
    \/ Report

Spec == Init /\ [][Next]_vars

\* ===================================================================== claims
RefNamesOf(refs) == {refs[k].name : k \in DOMAIN refs}
RefIndex(name) ==
    CHOOSE k \in DOMAIN reference_image_list : reference_image_list[k].name = name
RefImage(name) == reference_image_list[RefIndex(name)].image
Corrupt == {c \in DOMAIN decoded : decoded[c] \in {Undecodable, Truncated}}
Decodable == {c \in DOMAIN decoded : decoded[c] \in Images}
Finished == pc \in {"report", "done"}

\* the mean difference of a decodable candidate and a reference of its mode
Score(c, name) == np_mean(ImageChops_difference(RefImage(name), decoded[c]))
Comparable(c, name) == c \in Decodable /\ decoded[c].mode = RefImage(name).mode
RecordsOf(res, name, c) == {k \in DOMAIN res[name] : res[name][k][1] = c}

\* the depth-first leaf sequence of a tree, children in the provider's order
RECURSIVE DFSLeaves(_, _)
RECURSIVE DFSChildren(_, _)
DFSLeaves(t, n) ==
    IF n \notin t.dirs THEN <<n>> ELSE DFSChildren(t, t.children[n])
DFSChildren(t, cs) ==
    IF cs = <<>> THEN <<>>
    ELSE DFSLeaves(t, Head(cs)) \o DFSChildren(t, Tail(cs))

IsPrefix(a, b) == Len(a) <= Len(b) /\ a = SubSeq(b, 1, Len(a))
PosIn(seq, x) == CHOOSE k \in DOMAIN seq : seq[k] = x

\* C1: every record (candidate, score) in a reference's list is the score of
\* that candidate against that reference and is strictly below the threshold;
\* a scored pair whose score equals or exceeds the threshold has no record.
C1_StrictThreshold ==
    \A name \in DOMAIN result : \A k \in DOMAIN result[name] :
        LET c == result[name][k][1]
            mean_diff == result[name][k][2]
        IN /\ Comparable(c, name)
           /\ mean_diff = Score(c, name)
           /\ mean_diff.num < similarity_threshold * mean_diff.den

\* C1 witness: the scan is over, a candidate was scored against the first
\* reference with a score equal to the threshold and has no record there,
\* while another candidate has one.
C1_Witness ==
    /\ pc = "done"
    /\ reference_image_list # <<>>
    /\ LET name == reference_image_list[1].name IN
       /\ \E c \in Decodable :
             /\ Comparable(c, name)
             /\ Score(c, name).num = similarity_threshold * Score(c, name).den
             /\ RecordsOf(result, name, c) = {}
       /\ result[name] # <<>>

\* C2: after a setup failure (the reference folder cannot be listed, or no
\* reference image was loaded) no entry is visited or opened, no traversal
\* runs, and the run ends aborted with a non-zero exit code.
SetupFailed ==
    \/ load_status = "listdir_error"
    \/ load_status \in {"ok", "open_error"} /\ reference_image_list = <<>>
C2_AbortOnSetupFailure ==
    SetupFailed =>
        /\ visited = <<>>
        /\ opened = {}
        /\ stack = <<>>
        /\ pc # "traverse"
        /\ pc \in {"done", "aborted"} => pc = "aborted" /\ exit_code > 0

\* C3: the keys of result are exactly the names of the loaded references, in
\* the report phase as in every other, and no step outside the loading of
\* the references changes the set of keys.
C3_ResultKeys ==
    /\ [](DOMAIN result = RefNamesOf(reference_image_list))
    /\ [][pc # "load" => /\ DOMAIN result' = DOMAIN result
                          /\ reference_image_list' = reference_image_list]_vars

\* C3 witness: the report has run with two references loaded, one with an
\* empty match list and one with a match.
C3_Witness ==
    /\ pc = "done"
    /\ Len(reference_image_list) = 2
    /\ DOMAIN result = {1, 2}
    /\ \E a \in DOMAIN result, b \in DOMAIN result :
          result[a] = <<>> /\ result[b] # <<>>

CorruptStep ==
    \E c \in DOMAIN decoded' \ DOMAIN decoded :
        decoded'[c] \in {Undecodable, Truncated}
C5_CorruptCandidateSkipped ==
    /\ [](\A c \in Corrupt : \A name \in DOMAIN result :
             RecordsOf(result, name, c) = {})
    /\ []((Finished /\ load_status = "ok") =>
             \A c \in Corrupt : \A n \in Range(DFSLeaves(tree, 0)) :
                n \in Range(visited))
    /\ [][CorruptStep => /\ result' = result
                         /\ pc' # "aborted"
                         /\ exit_code' = exit_code
                         /\ stack' = Return(stack)
                         /\ pc' = PcAfter(stack')]_vars

\* C5 witness: leaf 2 was corrupt, leaf 1 came after it, was scored and has
\* a record, and the report has run.
C5_Witness ==
    /\ pc = "done"
    /\ visited = <<2, 1>>
    /\ 2 \in Corrupt
    /\ \E name \in DOMAIN result : RecordsOf(result, name, 1) # {}
    /\ \A name \in DOMAIN result : RecordsOf(result, name, 2) = {}

\* C6: a candidate whose score is below the threshold for two different
\* loaded references has exactly one record in each of the two lists.
Below(c, name) ==
    Comparable(c, name) /\ MeanLess(Score(c, name), similarity_threshold)
C6_IndependentMatches ==
    \A c \in Decodable : \A a \in DOMAIN result, b \in DOMAIN result :
        (a # b /\ Below(c, a) /\ Below(c, b)) =>
            /\ Cardinality(RecordsOf(result, a, c)) = 1
            /\ Cardinality(RecordsOf(result, b, c)) = 1

\* C7: every (reference, candidate) match of the scan with the threshold is
\* a match of the same scan with the threshold raised by one (thresholds are
\* integers, so this step gives all T2 > T1).
C7_ThresholdMonotone ==
    Finished =>
        \A name \in DOMAIN result : \A k \in DOMAIN result[name] :
            RecordsOf(resultHi, name, result[name][k][1]) # {}

\* C8: the report prints, for each reference with a match, its name followed
\* by its matches, and prints the single "no matches" notice when no
\* reference has a match.
HasBlock(out, name, similar_images) ==
    \E k \in DOMAIN out :
        /\ out[k] = [kind |-> "reference", name |-> name]
        /\ k + Len(similar_images) <= Len(out)
        /\ \A j \in DOMAIN similar_images :
              out[k + j] = [kind |-> "stat", path |-> similar_images[j][1],
                            difference |-> similar_images[j][2]]
C8_Report ==
    pc = "done" =>
        /\ \A name \in DOMAIN result :
              result[name] # <<>> => HasBlock(stdout, name, result[name])
        /\ (\A name \in DOMAIN result : result[name] = <<>>) =>
              stdout = <<[kind |-> "text", text |-> NoMatchNotice]>>

\* C9: a directory whose listing raises does not abort the scan.
C9_ListErrorSkipsSubtree ==
    list_failed # {} => pc # "aborted"

\* C10: the result is the one the same scan produces with no output folder,
\* whatever the export writes do.
C10_ExportDoesNotInfluence ==
    Finished => result = resultNoOut

====
